---------------------------- MODULE Spec2Model ----------------------------
(***************************************************************************)
(* Model of benchmark_config.py: the single-call executor (call_model),    *)
(* the fan-out runner (run_benchmark), the suite driver                    *)
(* (run_all_benchmarks) and the reports (save_results, print_summary) of   *)
(* ModelBenchmark.                                                         *)
(*                                                                         *)
(* The specifications share the same actions:                              *)
(*   Spec        main(): the suite over the three configured endpoints,    *)
(*               with instantaneous exchanges (the clock does not advance) *)
(*               that time out, complete, or fail outside the try block,   *)
(*               followed by save_results and print_summary;               *)
(*   SpecLive    run_all_benchmarks() under weak fairness of its steps;    *)
(*   SpecReport  save_results() and print_summary() on the logs a suite    *)
(*               can leave, with responses around the preview length;      *)
(*   SpecFanOut  one run_benchmark(test_config) with more kinds of         *)
(*               exchanges and a running clock;                            *)
(*   SpecCall    one call_model(endpoint, config) with an arbitrary        *)
(*               endpoint descriptor, every kind of exchange and a running *)
(*               clock.                                                    *)
(***************************************************************************)
EXTENDS Integers, Sequences, FiniteSets, TLC

VARIABLES
    endpoints,      \* the ModelEndpoint objects (their headers dicts are mutable)
    calls,          \* the call_model coroutines: those of the current fan-out
    finished,       \* indices of calls in the order in which they finished
    now,            \* the wall clock read by time.time() and datetime.now()
    pc,             \* position of main() / run_all_benchmarks
    test_index,     \* index in BENCHMARK_TESTS of the test case being run
    results,        \* self.results, the result log
    valid_results,  \* the list returned by the last run_benchmark
    console,        \* the lines printed so far
    requests,       \* the POST requests handed to the network so far, in order
    file            \* benchmark_results.json: <<>> until written, then <<its data>>

vars == <<endpoints, calls, finished, now, pc, test_index, results,
          valid_results, console, requests, file>>

---------------------------------------------------------------------------
(* Bounds of the model.                                                    *)

\* The clock takes the values 0..MaxTime.
MaxTime == 1

\* The suite runs the first NumTests test cases of BENCHMARK_TESTS.
NumTests == 2

---------------------------------------------------------------------------
(* Static configuration (lines 15-147).                                    *)

\* The credentials of the source are abbreviated to their prefix.
CEREBRAS_ENDPOINT ==
    [name |-> "Cerebras", base_url |-> "https://api.cerebras.ai/v1",
     api_key |-> "csk-key", model_name |-> "qwen-3-coder-480b",
     headers |-> [h \in {"Content-Type", "Authorization"} |->
                    IF h = "Content-Type" THEN "application/json"
                    ELSE "Bearer csk-key"]]

ALIBABA_ENDPOINT ==
    [name |-> "Alibaba Cloud",
     base_url |-> "https://dashscope-intl.aliyuncs.com/compatible-mode/v1",
     api_key |-> "sk-key", model_name |-> "qwen3-coder-plus",
     headers |-> [h \in {"Content-Type", "Authorization"} |->
                    IF h = "Content-Type" THEN "application/json"
                    ELSE "Bearer sk-key"]]

CUSTOM_ENDPOINT ==
    [name |-> "Custom Server", base_url |-> "http://86.38.182.74:8000",
     api_key |-> "none", model_name |-> "qwen3-coder",
     headers |-> [h \in {"Content-Type"} |-> "application/json"]]

\* The endpoints run_benchmark calls, in the order of its task list.
ConfiguredEndpoints == <<CEREBRAS_ENDPOINT, ALIBABA_ENDPOINT, CUSTOM_ENDPOINT>>

\* The test cases: name and generation limits (the prompt text is only
\* copied into the request payload and is not modelled).
BENCHMARK_TESTS ==
    << [name |-> "simple_function",          expected_tokens |-> 200, max_tokens |-> 500],
       [name |-> "algorithm_implementation", expected_tokens |-> 400, max_tokens |-> 800],
       [name |-> "data_structure",           expected_tokens |-> 600, max_tokens |-> 1200],
       [name |-> "debugging_task",           expected_tokens |-> 300, max_tokens |-> 600],
       [name |-> "code_explanation",         expected_tokens |-> 400, max_tokens |-> 800],
       [name |-> "api_design",               expected_tokens |-> 700, max_tokens |-> 1400],
       [name |-> "performance_analysis",     expected_tokens |-> 500, max_tokens |-> 1000],
       [name |-> "complex_system_design",    expected_tokens |-> 800, max_tokens |-> 1600] >>

\* The test cases the bounded suite iterates over.
SuiteTests == SubSeq(BENCHMARK_TESTS, 1, NumTests)

---------------------------------------------------------------------------
(* Python values, as far as call_model inspects them.  A value is a        *)
(* record [t, v]: its type tag and its payload.                            *)

PyNone     == [t |-> "NoneType", v |-> 0]
PyInt(n)   == [t |-> "int",  v |-> n]
PyStr(s)   == [t |-> "str",  v |-> s]
PyList(xs) == [t |-> "list", v |-> xs]
PyDict(f)  == [t |-> "dict", v |-> f]

\* A dict with one key.
Dict1(k, x) == PyDict([key \in {k} |-> x])
EmptyDict   == PyDict([key \in {} |-> PyNone])

\* An exception: its class and its str().  The result of evaluating an
\* expression: a value, or a raised exception.
Exc(type, msg) == [type |-> type, msg |-> msg]
NoExc          == Exc("", "")
Ok(x)          == [ok |-> TRUE,  val |-> x,      err |-> NoExc]
Err(type, msg) == [ok |-> FALSE, val |-> PyNone, err |-> Exc(type, msg)]

\* Text fragments and characters from which the strings of the model are built.
Fragments == {"", "no ", "!"}
Alphabet  == {"h", "o", "n", "a"}
Tails     == {"", "i", "ops", "o choices", "bc", "bcdefghi"}

\* `k in s` for two str: k is a substring of s.
IsSubstring(k, s) == \E pre \in Fragments, post \in Fragments : s = pre \o k \o post

\* s[0] for a non-empty str.
FirstChar(s) == CHOOSE c \in Alphabet : \E rest \in Tails : s = c \o rest

\* Fault variant of Truthy: only None counts as false (`is None` for `not`).
TruthyNotNone(x) == x.t # "NoneType"

\* bool(x)
Truthy(x) ==
    CASE x.t = "NoneType" -> FALSE
      [] x.t = "int"      -> x.v # 0
      [] x.t = "str"      -> x.v # ""
      [] x.t = "list"     -> x.v # <<>>
      [] x.t = "dict"     -> DOMAIN x.v # {}

\* `key in x` for a str key; val is a BOOLEAN.
PyIn(key, x) ==
    CASE x.t = "dict" -> [ok |-> TRUE, val |-> key \in DOMAIN x.v, err |-> NoExc]
      [] x.t = "list" -> [ok |-> TRUE,
                          val |-> \E n \in DOMAIN x.v : x.v[n] = PyStr(key),
                          err |-> NoExc]
      [] x.t = "str"  -> [ok |-> TRUE, val |-> IsSubstring(key, x.v), err |-> NoExc]
      [] OTHER        -> [ok |-> FALSE, val |-> FALSE,
                          err |-> Exc("TypeError", "argument of type '" \o x.t
                                                   \o "' is not iterable")]

\* str(KeyError(key))
KeyErrorStr(key) == IF key.t = "str" THEN "'" \o key.v \o "'" ELSE ToString(key.v)

\* x[key] for a str or int key.
PyGetItem(x, key) ==
    CASE x.t = "dict" ->
            IF key.t = "str" /\ key.v \in DOMAIN x.v
            THEN Ok(x.v[key.v]) ELSE Err("KeyError", KeyErrorStr(key))
      [] x.t = "list" ->
            IF key.t # "int"
            THEN Err("TypeError", "list indices must be integers or slices, not " \o key.t)
            ELSE IF key.v + 1 \in DOMAIN x.v
                 THEN Ok(x.v[key.v + 1]) ELSE Err("IndexError", "list index out of range")
      [] x.t = "str" ->
            IF key.t # "int"
            THEN Err("TypeError", "string indices must be integers, not '" \o key.t \o "'")
            ELSE IF x.v # "" THEN Ok(PyStr(FirstChar(x.v)))
                 ELSE Err("IndexError", "string index out of range")
      [] OTHER -> Err("TypeError", "'" \o x.t \o "' object is not subscriptable")

\* len(x); val is a number.
PyLen(x) ==
    CASE x.t \in {"str", "list"} -> [ok |-> TRUE, val |-> Len(x.v), err |-> NoExc]
      [] x.t = "dict" -> [ok |-> TRUE, val |-> Cardinality(DOMAIN x.v), err |-> NoExc]
      [] OTHER -> [ok |-> FALSE, val |-> 0,
                   err |-> Exc("TypeError", "object of type '" \o x.t
                                            \o "' has no len()")]

---------------------------------------------------------------------------
(* BenchmarkResult (lines 149-160) and the records call_model builds.      *)

\* Optional[str]: None is <<>>, a str s is <<s>>.
None      == <<>>
Some(s)   == <<s>>

\* tokens_per_second, a quotient of two integers, kept as a fraction.
Fraction(n, d) == [num |-> n, den |-> d]
Zero           == Fraction(0, 1)

\* Fault variant of HttpErrorResult: the message leaves out the body text.
HttpErrorResultStatusOnly(config, endpoint, response_time, status, error_text, stamp) ==
    [test_name |-> config.name, model_name |-> endpoint.name,
     response |-> PyStr(""), response_time |-> response_time,
     tokens_generated |-> 0, tokens_per_second |-> Zero, success |-> FALSE,
     error_message |-> Some("HTTP " \o ToString(status)),
     timestamp |-> stamp]

\* Lines 199-209: the record of a non-200 answer.
HttpErrorResult(config, endpoint, response_time, status, error_text, stamp) ==
    [test_name |-> config.name, model_name |-> endpoint.name,
     response |-> PyStr(""), response_time |-> response_time,
     tokens_generated |-> 0, tokens_per_second |-> Zero, success |-> FALSE,
     error_message |-> Some("HTTP " \o ToString(status) \o ": " \o error_text),
     timestamp |-> stamp]

\* Lines 214-224: the record of a body without choices.
NoChoicesResult(config, endpoint, response_time, stamp) ==
    [test_name |-> config.name, model_name |-> endpoint.name,
     response |-> PyStr(""), response_time |-> response_time,
     tokens_generated |-> 0, tokens_per_second |-> Zero, success |-> FALSE,
     error_message |-> Some("No response choices returned"),
     timestamp |-> stamp]

\* Fault variant of TokensPerSecond: the division without its guard.
TokensPerSecondUnguarded(tokens_generated, response_time) ==
    Fraction(tokens_generated, response_time)

\* Line 230.
TokensPerSecond(tokens_generated, response_time) ==
    IF response_time > 0 THEN Fraction(tokens_generated, response_time) ELSE Zero

\* Lines 232-241: the record of a completion.
SuccessResult(config, endpoint, response_time, response_text, tokens_generated, stamp) ==
    [test_name |-> config.name, model_name |-> endpoint.name,
     response |-> response_text, response_time |-> response_time,
     tokens_generated |-> tokens_generated,
     tokens_per_second |-> TokensPerSecond(tokens_generated, response_time),
     success |-> TRUE, error_message |-> None, timestamp |-> stamp]

\* Fault variant of ExceptionResult: the message of the exception is dropped.
ExceptionResultNoMessage(config, endpoint, response_time, e, stamp) ==
    [test_name |-> config.name, model_name |-> endpoint.name,
     response |-> PyStr(""), response_time |-> response_time,
     tokens_generated |-> 0, tokens_per_second |-> Zero, success |-> FALSE,
     error_message |-> None, timestamp |-> stamp]

\* Lines 244-255: the record the except clause builds from exception e.
ExceptionResult(config, endpoint, response_time, e, stamp) ==
    [test_name |-> config.name, model_name |-> endpoint.name,
     response |-> PyStr(""), response_time |-> response_time,
     tokens_generated |-> 0, tokens_per_second |-> Zero, success |-> FALSE,
     error_message |-> Some(e.msg), timestamp |-> stamp]

---------------------------------------------------------------------------
(* call_model (lines 168-255).                                             *)

\* d[k] = x on a dict d.
SetItem(d, k, x) == [h \in DOMAIN d \cup {k} |-> IF h = k THEN x ELSE d[h]]

\* Lines 184-186: the headers of the request (sent) and the endpoint's own
\* headers dict afterwards (own): the request's dict is a copy.
PrepareHeaders(endpoint) ==
    [sent |-> IF endpoint.api_key # "none"
              THEN SetItem(endpoint.headers, "Authorization",
                           "Bearer " \o endpoint.api_key)
              ELSE endpoint.headers,
     own  |-> endpoint.headers]

\* Lines 172-180: the payload (without the prompt and the temperature).
Payload(endpoint, config) ==
    [model |-> endpoint.model_name, max_tokens |-> config.max_tokens,
     stream |-> FALSE]

\* Fault variant of TokenEstimate: rounds up.
TokenEstimateCeil(n) == (n + 3) \div 4

\* Line 229: the token estimate of a response of n characters.
TokenEstimate(n) == n \div 4

\* Lines 213-229 on the decoded body: "nochoices" (the early return of
\* line 214), "ok" with the response text and its token estimate, or
\* "raise" with the exception an operation raised.
Completion(data) ==
    LET NoChoices    == [kind |-> "nochoices", text |-> PyNone, tokens |-> 0, err |-> NoExc]
        Raise(e)     == [kind |-> "raise", text |-> PyNone, tokens |-> 0, err |-> e]
        Done(txt, n) == [kind |-> "ok", text |-> txt, tokens |-> TokenEstimate(n),
                         err |-> NoExc]
        has == PyIn("choices", data)
    IN  IF ~has.ok THEN Raise(has.err)
        ELSE IF ~has.val THEN NoChoices
        ELSE LET choices == PyGetItem(data, PyStr("choices")) IN
        IF ~choices.ok THEN Raise(choices.err)
        ELSE IF ~Truthy(choices.val) THEN NoChoices
        ELSE LET first == PyGetItem(choices.val, PyInt(0)) IN
        IF ~first.ok THEN Raise(first.err)
        ELSE LET message == PyGetItem(first.val, PyStr("message")) IN
        IF ~message.ok THEN Raise(message.err)
        ELSE LET content == PyGetItem(message.val, PyStr("content")) IN
        IF ~content.ok THEN Raise(content.err)
        ELSE LET n == PyLen(content.val) IN
        IF ~n.ok THEN Raise(n.err)
        ELSE Done(content.val, n.val)

\* The classes derived from Exception among those the model raises.
ExceptionClasses ==
    {"TimeoutError", "ClientConnectorError", "JSONDecodeError", "KeyError",
     "TypeError", "IndexError", "MemoryError"}

\* Fault variant of Catches: `except (asyncio.TimeoutError, aiohttp.ClientError)`.
CatchesTransportOnly(e) == e.type \in {"TimeoutError", "ClientConnectorError"}

\* Line 243: `except Exception` catches e.
Catches(e) == e.type \in ExceptionClasses

\* A call_model coroutine as run_benchmark creates it (lines 263-265):
\* endpoint and config are indices in endpoints and BENCHMARK_TESTS.  The
\* locals status, error_text, data and e are kept with it; result is what
\* it returned and exception what it raised.
NewCall(endpoint, config) ==
    [endpoint |-> endpoint, config |-> config, pc |-> "created",
     start_time |-> 0, response_time |-> 0, status |-> 0,
     request |-> <<>>, error_text |-> <<>>, data |-> <<>>, caught |-> <<>>,
     result |-> <<>>, exception |-> <<>>]

\* A coroutine that has returned or raised, and one that has not yet.
IsDone(c)    == c.pc \in {"returned", "raised"}
IsPending(c) == ~IsDone(c)

\* The coroutine c returns record r.
Returned(c, r) == [c EXCEPT !.pc = "returned", !.result = <<r>>]

\* Fault variant of RaisedInTry: a call that timed out is started again.
RaisedInTryRetry(c, e) ==
    IF e.type = "TimeoutError"
    THEN [c EXCEPT !.pc = "created", !.request = <<>>]
    ELSE IF Catches(e)
         THEN Returned([c EXCEPT !.caught = <<e>>, !.response_time = now - c.start_time],
                       ExceptionResult(BENCHMARK_TESTS[c.config], endpoints[c.endpoint],
                                       now - c.start_time, e, now))
         ELSE [c EXCEPT !.pc = "raised", !.exception = <<e>>]

\* Fault variant of RaisedInTry: the except clause does not take the time
\* again and records the response_time it finds.
RaisedInTryStaleTime(c, e) ==
    IF Catches(e)
    THEN Returned([c EXCEPT !.caught = <<e>>],
                  ExceptionResult(BENCHMARK_TESTS[c.config], endpoints[c.endpoint],
                                  c.response_time, e, now))
    ELSE [c EXCEPT !.pc = "raised", !.exception = <<e>>]

\* Exception e is raised inside the try block of c (lines 182-241): the
\* except clause (lines 243-255) takes the time again and returns its
\* record, or e propagates.
RaisedInTry(c, e) ==
    IF Catches(e)
    THEN Returned([c EXCEPT !.caught = <<e>>, !.response_time = now - c.start_time],
                  ExceptionResult(BENCHMARK_TESTS[c.config], endpoints[c.endpoint],
                                  now - c.start_time, e, now))
    ELSE [c EXCEPT !.pc = "raised", !.exception = <<e>>]

\* Call i becomes c; a call that is done is noted as finished.
Step(i, c) ==
    /\ calls' = [calls EXCEPT ![i] = c]
    /\ finished' = IF IsDone(c) THEN Append(finished, i) ELSE finished

\* The event loop starts the tasks of a gather in the order of its arguments.
IsNext(i) == /\ i \in DOMAIN calls
             /\ calls[i].pc = "created"
             /\ \A j \in DOMAIN calls : j < i => calls[j].pc # "created"

\* Lines 170-194: the call starts, builds payload and headers and sends
\* the request; it suspends awaiting the response.
call_model_begin(i) ==
    /\ IsNext(i)
    /\ LET c  == calls[i]
           ep == endpoints[c.endpoint]
           hs == PrepareHeaders(ep)
       IN /\ Step(i, [c EXCEPT
                 !.pc = "posting",
                 !.start_time = now,
                 !.request = << [url |-> ep.base_url \o "/chat/completions",
                                 headers |-> hs.sent,
                                 json |-> Payload(ep, BENCHMARK_TESTS[c.config])] >>])
          /\ endpoints' = [endpoints EXCEPT ![c.endpoint].headers = hs.own]
          /\ requests' = Append(requests, [model_name |-> ep.name,
                                           test_name  |-> BENCHMARK_TESTS[c.config].name])
    /\ UNCHANGED <<now, pc, test_index, results, valid_results, console, file>>

\* An exception raised outside the try block (lines 170-180): it is not
\* converted into a record and ends the coroutine.
call_model_abort(i, env) ==
    /\ IsNext(i)
    /\ \E e \in env.fatal : Step(i, [calls[i] EXCEPT !.pc = "raised", !.exception = <<e>>])
    /\ UNCHANGED <<endpoints, now, pc, test_index, results, valid_results, console,
                   requests, file>>

\* Lines 189-195: session.post raises, or the response head arrives and
\* response_time is taken.
call_model_response(i, env) ==
    /\ i \in DOMAIN calls
    /\ calls[i].pc = "posting"
    /\ LET c == calls[i] IN
       \/ \E e \in env.errors : Step(i, RaisedInTry(c, e))
       \/ \E s \in env.statuses :
            Step(i, [c EXCEPT !.pc = "reading", !.status = s,
                              !.response_time = now - c.start_time])
    /\ UNCHANGED <<endpoints, now, pc, test_index, results, valid_results, console,
                   requests, file>>

\* Lines 197-241: the body is read (response.text() or response.json()),
\* which may raise, and the record is built.
call_model_body(i, env) ==
    /\ i \in DOMAIN calls
    /\ calls[i].pc = "reading"
    /\ LET c      == calls[i]
           config == BENCHMARK_TESTS[c.config]
           ep     == endpoints[c.endpoint]
       IN IF c.status # 200
          THEN \/ \E e \in env.errors : Step(i, RaisedInTry(c, e))
               \/ \E error_text \in env.texts :
                     Step(i, Returned([c EXCEPT !.error_text = <<error_text>>],
                                      HttpErrorResult(config, ep, c.response_time,
                                                      c.status, error_text, now)))
          ELSE \/ \E e \in env.errors \cup env.json_errors : Step(i, RaisedInTry(c, e))
               \/ \E data \in env.jsons :
                     LET k == Completion(data)
                         d == [c EXCEPT !.data = <<data>>]
                     IN  CASE k.kind = "raise" -> Step(i, RaisedInTry(d, k.err))
                           [] k.kind = "nochoices" ->
                                Step(i, Returned(d, NoChoicesResult(config, ep,
                                                        c.response_time, now)))
                           [] k.kind = "ok" ->
                                Step(i, Returned(d, SuccessResult(config, ep,
                                            c.response_time, k.text, k.tokens, now)))
    /\ UNCHANGED <<endpoints, now, pc, test_index, results, valid_results, console,
                   requests, file>>

\* Time passes.
Tick ==
    /\ now < MaxTime
    /\ now' = now + 1
    /\ UNCHANGED <<endpoints, calls, finished, pc, test_index, results,
                   valid_results, console, requests, file>>

---------------------------------------------------------------------------
(* The network, as call_model sees it (lines 189-211): what session.post,  *)
(* response.text() and response.json() can raise or return.                *)

TimeoutError   == Exc("TimeoutError", "")
ConnectorError == Exc("ClientConnectorError", "Cannot connect to host")
JsonError      == Exc("JSONDecodeError", "Expecting value: line 1 column 1 (char 0)")
OutOfMemory    == Exc("MemoryError", "")

\* A chat completion whose first choice carries `content`.
ChatCompletion(content) ==
    Dict1("choices", PyList(<< Dict1("message", Dict1("content", content)) >>))

\* Bodies that decode as JSON.
WellFormedBodies ==
    { ChatCompletion(PyStr("")), ChatCompletion(PyStr("abc")),
      ChatCompletion(PyStr("abcdefghi")) }

NoChoicesBodies ==
    { EmptyDict, PyList(<<>>), PyStr("oops"),
      Dict1("choices", PyNone), Dict1("choices", PyList(<<>>)) }

OddBodies ==
    { PyNone, PyInt(5), PyStr("no choices"), PyList(<< PyStr("choices") >>),
      Dict1("choices", PyInt(7)), Dict1("choices", PyStr("hi")),
      Dict1("choices", Dict1("0", PyNone)),
      Dict1("choices", PyList(<< PyNone >>)),
      Dict1("choices", PyList(<< EmptyDict >>)),
      Dict1("choices", PyList(<< Dict1("message", EmptyDict) >>)),
      Dict1("choices", PyList(<< Dict1("message", PyStr("hi")) >>)),
      ChatCompletion(PyNone), ChatCompletion(PyInt(5)),
      ChatCompletion(PyList(<< PyStr("a"), PyStr("b"), PyStr("c"), PyStr("d") >>)) }

\* The exchanges of a direct call of call_model.
CallEnv ==
    [errors      |-> {TimeoutError, ConnectorError},
     statuses    |-> {200, 404, 500},
     texts       |-> {"", "server error"},
     json_errors |-> {JsonError},
     jsons       |-> WellFormedBodies \cup NoChoicesBodies \cup OddBodies,
     fatal       |-> {OutOfMemory}]

\* The exchanges of the calls of one run_benchmark.
FanOutEnv ==
    [errors      |-> {TimeoutError},
     statuses    |-> {200, 500},
     texts       |-> {"server error"},
     json_errors |-> {},
     jsons       |-> {ChatCompletion(PyStr("")), ChatCompletion(PyStr("abcdefghi")),
                      EmptyDict, Dict1("choices", PyList(<< EmptyDict >>))},
     fatal       |-> {OutOfMemory}]

\* The exchanges of the calls of the suite.
SuiteEnv ==
    [errors      |-> {TimeoutError},
     statuses    |-> {200},
     texts       |-> {},
     json_errors |-> {},
     jsons       |-> {ChatCompletion(PyStr("abcdefghi"))},
     fatal       |-> {OutOfMemory}]

---------------------------------------------------------------------------
(* run_benchmark (lines 257-278) and run_all_benchmarks (lines 280-296).   *)

Line(text)     == [kind |-> "text", text |-> text, record |-> <<>>]
StatusLine(r)  == [kind |-> "status", text |-> IF r.success THEN "ok" ELSE "failed",
                   record |-> <<r>>]
Separator      == Line("------------------------------")

\* Lines 262-266: one coroutine per endpoint, in this order.
Tasks(config) == [e \in DOMAIN ConfiguredEndpoints |-> NewCall(e, config)]

\* The indices in calls of the tasks of the current run_benchmark, in order.
RECURSIVE TaskIndices(_)
TaskIndices(n) ==
    IF n = 0 THEN <<>>
    ELSE IF calls[n].config = test_index
         THEN Append(TaskIndices(n - 1), n) ELSE TaskIndices(n - 1)

\* Fault variant of GatherDone: resumes with the first task that is done
\* (asyncio.wait with FIRST_COMPLETED).
GatherFirstCompleted(tasks) == \E i \in DOMAIN tasks : IsDone(calls[tasks[i]])

\* Fault variant of GatherDone: gather without return_exceptions hands the
\* first exception to its caller, and run_benchmark does not go on.
GatherDoneNoneRaised(tasks) == \A i \in DOMAIN tasks : calls[tasks[i]].pc = "returned"

\* Line 268: `await asyncio.gather(...)` resumes when every task is done.
GatherDone(tasks) == \A i \in DOMAIN tasks : IsDone(calls[tasks[i]])

\* One item of the list gather returns, for coroutine c.
GatherItem(c) ==
    CASE c.pc = "returned" -> [kind |-> "value", value |-> c.result, error |-> NoExc]
      [] c.pc = "raised"   -> [kind |-> "raised", value |-> <<>>, error |-> c.exception[1]]
      [] OTHER             -> [kind |-> "pending", value |-> <<>>, error |-> NoExc]

\* Fault variant of gather: the items in the order in which the tasks
\* finished (asyncio.as_completed).
gather_as_completed(tasks, order) ==
    LET mine == SelectSeq(order, LAMBDA n : \E i \in DOMAIN tasks : tasks[i] = n)
    IN  [i \in DOMAIN mine |-> GatherItem(calls[mine[i]])]

\* Line 268: asyncio.gather(*tasks, return_exceptions=True) gives one item
\* per task, in the order of the tasks: the record it returned or the
\* exception it raised.  `order` is the order in which the tasks finished.
gather(tasks, order) == [i \in DOMAIN tasks |-> GatherItem(calls[tasks[i]])]

\* Fault variant of IsException: a failed record counts as an exception too.
IsExceptionOrFailure(item) ==
    \/ item.kind = "raised"
    \/ item.kind = "value" /\ ~item.value[1].success

\* Line 272: isinstance(result, Exception)
IsException(item) == item.kind = "raised" /\ item.error.type \in ExceptionClasses

\* Fault variant of ValidResults: the loop ends at the first exception.
RECURSIVE ValidResultsUntilException(_)
ValidResultsUntilException(items) ==
    IF items = <<>> THEN <<>>
    ELSE IF IsException(Head(items)) THEN <<>>
         ELSE Head(items).value \o ValidResultsUntilException(Tail(items))

\* Lines 270-276: the items that are no exceptions, in order.
RECURSIVE ValidResults(_)
ValidResults(items) ==
    IF items = <<>> THEN <<>>
    ELSE IF IsException(Head(items)) THEN ValidResults(Tail(items))
         ELSE Head(items).value \o ValidResults(Tail(items))

\* Line 273: one line per exception, in order.
RECURSIVE ErrorLines(_)
ErrorLines(items) ==
    IF items = <<>> THEN <<>>
    ELSE IF IsException(Head(items))
         THEN <<Line("Error in benchmark: " \o Head(items).error.msg)>>
              \o ErrorLines(Tail(items))
         ELSE ErrorLines(Tail(items))

\* Fault variant of AppendAll: the log is replaced by the new records
\* (`self.results = valid_results`).
ReplaceAll(log, rs) == rs

\* Fault variant of AppendAll: the new records are put in front of the log.
PrependAll(log, rs) == rs \o log

\* Line 276, for every record of the loop: self.results.append(result).
AppendAll(log, rs) == log \o rs

\* Lines 289-292: one status line per returned record.
StatusLines(rs) == [k \in DOMAIN rs |-> StatusLine(rs[k])]

\* The coroutines that are not done stay with the event loop.
Pending(cs) == SelectSeq(cs, IsPending)

\* Lines 259-268: run_benchmark prints its header, creates the tasks and
\* awaits gather.
EnterRunBenchmark(k, printed) ==
    /\ test_index' = k
    /\ calls' = Pending(calls) \o Tasks(k)
    /\ finished' = <<>>
    /\ console' = printed \o <<Line("Running test: " \o BENCHMARK_TESTS[k].name)>>
    /\ pc' = "gathering"

\* Lines 282-286: run_all_benchmarks starts and enters the first run_benchmark.
run_all_benchmarks(tests) ==
    /\ pc = "main"
    /\ IF tests # <<>>
       THEN EnterRunBenchmark(1, console \o <<Line("Starting AI Model Benchmark"),
                                              Line("==================================================")>>)
       ELSE /\ pc' = "suite_done"
            /\ UNCHANGED <<test_index, calls, finished, console>>
    /\ UNCHANGED <<endpoints, now, results, valid_results, requests, file>>

\* A direct run_benchmark(test_config), test_config being BENCHMARK_TESTS[test_index].
run_benchmark ==
    /\ pc = "run_benchmark"
    /\ EnterRunBenchmark(test_index, console)
    /\ UNCHANGED <<endpoints, now, results, valid_results, requests, file>>

\* Lines 268-278: every task is done and gather returns; the loop prints
\* the exceptions and appends the records, and run_benchmark returns them.
run_benchmark_join ==
    /\ pc = "gathering"
    /\ LET tasks == TaskIndices(Len(calls)) IN
       /\ GatherDone(tasks)
       /\ LET items == gather(tasks, finished)
              valid == ValidResults(items)
          IN /\ results' = AppendAll(results, valid)
             /\ valid_results' = valid
             /\ console' = console \o ErrorLines(items)
    /\ pc' = "joined"
    /\ UNCHANGED <<endpoints, calls, finished, now, test_index, requests, file>>

\* Fault variant of print_results: the loop goes on without its sleep.
print_results_without_sleep ==
    /\ pc = "joined"
    /\ test_index \in DOMAIN SuiteTests
    /\ LET printed == console \o StatusLines(valid_results) \o <<Separator>> IN
       IF test_index < Len(SuiteTests)
       THEN EnterRunBenchmark(test_index + 1, printed)
       ELSE /\ pc' = "suite_done"
            /\ console' = printed
            /\ UNCHANGED <<test_index, calls, finished>>
    /\ UNCHANGED <<endpoints, now, results, valid_results, requests, file>>

\* Lines 289-296: the status lines of the returned records are printed and
\* the pacing sleep begins.
print_results ==
    /\ pc = "joined"
    /\ test_index \in DOMAIN SuiteTests
    /\ console' = console \o StatusLines(valid_results) \o <<Separator>>
    /\ pc' = "sleeping"
    /\ UNCHANGED <<endpoints, calls, finished, now, test_index, results, valid_results,
                   requests, file>>

\* Lines 296 and 285-286: the sleep is over; the loop enters the next
\* run_benchmark or ends.
sleep_return(tests) ==
    /\ pc = "sleeping"
    /\ IF test_index < Len(tests)
       THEN EnterRunBenchmark(test_index + 1, console)
       ELSE /\ pc' = "suite_done"
            /\ UNCHANGED <<test_index, calls, finished, console>>
    /\ UNCHANGED <<endpoints, now, results, valid_results, requests, file>>

---------------------------------------------------------------------------
(* save_results (lines 298-317).                                           *)

\* Line 311: the length of a preview and the marker of a cut.
PreviewLen == 200
Ellipsis   == "..."

\* x[:n] for a str or a list.
Slice(x, n) ==
    [t |-> x.t, v |-> IF Len(x.v) > n THEN SubSeq(x.v, 1, n) ELSE x.v]

\* x + y where y is a str.
PyAdd(x, y) ==
    IF x.t = "str" THEN Ok(PyStr(x.v \o y.v))
    ELSE Err("TypeError", "can only concatenate " \o x.t \o " (not \"str\") to " \o x.t)

\* Fault variant of Preview: a response of exactly PreviewLen characters is cut too.
PreviewCutsAtLimit(response) ==
    IF response.t = "str" /\ Len(response.v) >= PreviewLen
    THEN Ok(PyStr(SubSeq(response.v, 1, PreviewLen) \o Ellipsis))
    ELSE Ok(response)

\* Line 311: response[:200] + "..." if len(response) > 200 else response.
\* The response of a record is a str, or whatever the body gave as content.
Preview(response) ==
    LET n == PyLen(response) IN
    IF ~n.ok THEN [ok |-> FALSE, val |-> PyNone, err |-> n.err]
    ELSE IF n.val > PreviewLen
         THEN IF response.t \in {"str", "list"}
              THEN PyAdd(Slice(response, PreviewLen), PyStr(Ellipsis))
              ELSE Err("TypeError", "unhashable type: 'slice'")
         ELSE Ok(response)

\* Lines 302-312: the entry of one record.
Entry(result) ==
    [test_name        |-> result.test_name,
     model_name       |-> result.model_name,
     response_time    |-> result.response_time,
     tokens_generated |-> result.tokens_generated,
     tokens_per_second |-> result.tokens_per_second,
     success          |-> result.success,
     error_message    |-> result.error_message,
     timestamp        |-> result.timestamp,
     response_preview |-> Preview(result.response).val]

\* Lines 300-312: results_data.
ResultsData(log) == [k \in DOMAIN log |-> Entry(log[k])]

\* Lines 298-317.  An exception of line 311 leaves the method before the
\* file is opened.
save_results ==
    /\ pc = "suite_done"
    /\ IF \E k \in DOMAIN results : ~Preview(results[k].response).ok
       THEN /\ pc' = "main_raised"
            /\ UNCHANGED <<file, console>>
       ELSE /\ file' = << ResultsData(results) >>
            /\ console' = Append(console, Line("Results saved to benchmark_results.json"))
            /\ pc' = "saved"
    /\ UNCHANGED <<endpoints, calls, finished, now, test_index, results, valid_results,
                   requests>>

---------------------------------------------------------------------------
(* print_summary (lines 319-349).                                          *)

\* Fault variant of ModelNames: the models in the order of run_benchmark's
\* task list instead of the order of the log.
ModelNamesByEndpoint(log) ==
    LET names == [e \in DOMAIN ConfiguredEndpoints |-> ConfiguredEndpoints[e].name]
    IN  SelectSeq(names, LAMBDA m : \E k \in DOMAIN log : log[k].model_name = m)

\* Lines 326-330: the keys of model_results, a dict, in insertion order.
RECURSIVE ModelNames(_)
ModelNames(log) ==
    IF log = <<>> THEN <<>>
    ELSE LET before == ModelNames(SubSeq(log, 1, Len(log) - 1))
             m      == log[Len(log)].model_name
         IN  IF \E i \in DOMAIN before : before[i] = m THEN before
             ELSE Append(before, m)

\* Lines 326-330: model_results[model_name].
ModelResults(log, model_name) == SelectSeq(log, LAMBDA r : r.model_name = model_name)

\* Fault variant of SuccessfulResults: every record counts.
AllResults(rs) == rs

\* Lines 333-334.
SuccessfulResults(rs) == SelectSeq(rs, LAMBDA r : r.success)
FailedResults(rs)     == SelectSeq(rs, LAMBDA r : ~r.success)

\* Sums of integers and of fractions (sum(...) of lines 340-341).
AddFractions(a, b) == Fraction(a.num * b.den + b.num * a.den, a.den * b.den)

RECURSIVE SumResponseTime(_)
SumResponseTime(rs) ==
    IF rs = <<>> THEN 0 ELSE Head(rs).response_time + SumResponseTime(Tail(rs))

RECURSIVE SumTokensPerSecond(_)
SumTokensPerSecond(rs) ==
    IF rs = <<>> THEN Zero
    ELSE AddFractions(Head(rs).tokens_per_second, SumTokensPerSecond(Tail(rs)))

\* The lines of print_summary: what they report is kept in `record`.
SummaryLine(kind, model_name, what) ==
    [kind |-> kind, text |-> model_name, record |-> <<what>>]

\* Lines 333-349: the lines of one model.
ModelSummary(model_name, rs) ==
    LET successful_results == SuccessfulResults(rs)
        failed_results     == FailedResults(rs)
        n                  == Len(successful_results)
        total              == SumTokensPerSecond(successful_results)
    IN  << SummaryLine("model", model_name, Len(rs)),
           SummaryLine("successful", model_name,
                       [successful |-> n, total |-> Len(rs)]) >>
        \o (IF successful_results # <<>>
            THEN << SummaryLine("average_time", model_name,
                                Fraction(SumResponseTime(successful_results), n)),
                    SummaryLine("average_tps", model_name,
                                Fraction(total.num, total.den * n)) >>
            ELSE <<>>)
        \o (IF failed_results # <<>>
            THEN << SummaryLine("failed_count", model_name, Len(failed_results)) >>
                 \o [k \in DOMAIN failed_results |->
                       SummaryLine("failed", model_name,
                                   [test_name     |-> failed_results[k].test_name,
                                    error_message |-> failed_results[k].error_message])]
            ELSE <<>>)

\* Lines 332-349: the lines of the models, in the order of `names`.
RECURSIVE Summary(_, _)
Summary(names, log) ==
    IF names = <<>> THEN <<>>
    ELSE ModelSummary(Head(names), ModelResults(log, Head(names)))
         \o Summary(Tail(names), log)

\* Lines 319-349.
print_summary ==
    /\ pc = "saved"
    /\ console' = console
                  \o << Line("=================================================="),
                        Line("BENCHMARK SUMMARY"),
                        Line("==================================================") >>
                  \o Summary(ModelNames(results), results)
    /\ pc' = "done"
    /\ UNCHANGED <<endpoints, calls, finished, now, test_index, results, valid_results,
                   requests, file>>

---------------------------------------------------------------------------
(* Spec: main() (lines 351-358).                                           *)

Init ==
    /\ endpoints = ConfiguredEndpoints
    /\ calls = <<>>
    /\ finished = <<>>
    /\ now = 0
    /\ pc = "main"
    /\ test_index = 0
    /\ results = <<>>
    /\ valid_results = <<>>
    /\ console = <<>>
    /\ requests = <<>>
    /\ file = <<>>

\* Line 354: the steps of run_all_benchmarks and of the calls it awaits.
NextSuite ==
    \/ run_all_benchmarks(SuiteTests)
    \/ \E i \in DOMAIN calls : call_model_begin(i)
    \/ \E i \in DOMAIN calls : call_model_abort(i, SuiteEnv)
    \/ \E i \in DOMAIN calls : call_model_response(i, SuiteEnv)
    \/ \E i \in DOMAIN calls : call_model_body(i, SuiteEnv)
    \/ run_benchmark_join
    \/ print_results
    \/ sleep_return(SuiteTests)

Next ==
    \/ NextSuite
    \/ save_results
    \/ print_summary

Spec == Init /\ [][Next]_vars

\* run_all_benchmarks() with an event loop that runs every coroutine that
\* can go on, and a network on which every exchange ends: with its
\* response, with a failure, or with the timeout of line 193.
SpecLive == Init /\ [][NextSuite]_vars /\ WF_vars(NextSuite)

---------------------------------------------------------------------------
(* SpecFanOut: one run_benchmark(test_config) on a fresh ModelBenchmark.   *)

InitFanOut ==
    /\ endpoints = ConfiguredEndpoints
    /\ calls = <<>>
    /\ finished = <<>>
    /\ now = 0
    /\ pc = "run_benchmark"
    /\ test_index \in DOMAIN SuiteTests
    /\ results = <<>>
    /\ valid_results = <<>>
    /\ console = <<>>
    /\ requests = <<>>
    /\ file = <<>>

NextFanOut ==
    \/ run_benchmark
    \/ \E i \in DOMAIN calls : call_model_begin(i)
    \/ \E i \in DOMAIN calls : call_model_abort(i, FanOutEnv)
    \/ \E i \in DOMAIN calls : call_model_response(i, FanOutEnv)
    \/ \E i \in DOMAIN calls : call_model_body(i, FanOutEnv)
    \/ run_benchmark_join
    \/ Tick

SpecFanOut == InitFanOut /\ [][NextFanOut]_vars

---------------------------------------------------------------------------
(* SpecCall: one call_model(endpoint, config) on a fresh ModelBenchmark,   *)
(* for any endpoint descriptor.                                            *)

Range(f) == {f[x] : x \in DOMAIN f}

\* Descriptors: the configured ones and their variants in api_key and headers.
EndpointDescriptors ==
    UNION { { [e EXCEPT !.api_key = k, !.headers = hs] :
                k \in {e.api_key, "none"},
                hs \in { e.headers,
                         [h \in {"Content-Type"} |-> "application/json"],
                         SetItem(e.headers, "Authorization", "Bearer stale") } } :
            e \in Range(ConfiguredEndpoints) }

InitCall ==
    /\ endpoints \in { <<e>> : e \in EndpointDescriptors }
    /\ calls \in { <<NewCall(1, t)>> : t \in DOMAIN SuiteTests }
    /\ finished = <<>>
    /\ now = 0
    /\ pc = "call_model"
    /\ test_index = 0
    /\ results = <<>>
    /\ valid_results = <<>>
    /\ console = <<>>
    /\ requests = <<>>
    /\ file = <<>>

NextCall ==
    \/ \E i \in DOMAIN calls : call_model_begin(i)
    \/ \E i \in DOMAIN calls : call_model_abort(i, CallEnv)
    \/ \E i \in DOMAIN calls : call_model_response(i, CallEnv)
    \/ \E i \in DOMAIN calls : call_model_body(i, CallEnv)
    \/ Tick

SpecCall == InitCall /\ [][NextCall]_vars

---------------------------------------------------------------------------
(* SpecReport: save_results() and print_summary() on a log that            *)
(* run_all_benchmarks has left.                                            *)

\* Completions of exactly PreviewLen characters and of one more.
Text10  == "abcdefghij"
Text50  == Text10 \o Text10 \o Text10 \o Text10 \o Text10
Text200 == Text50 \o Text50 \o Text50 \o Text50
Text201 == Text200 \o "k"

\* What the call of endpoint e for test case t can have left in the log:
\* nothing (it raised), or one of these records.
ReportRecords(t, e) ==
    LET config == BENCHMARK_TESTS[t]
        ep     == ConfiguredEndpoints[e]
    IN  { ExceptionResult(config, ep, MaxTime, TimeoutError, MaxTime),
          SuccessResult(config, ep, 0, PyStr(Text200),
                        TokenEstimate(Len(Text200)), MaxTime),
          SuccessResult(config, ep, MaxTime, PyStr(Text201),
                        TokenEstimate(Len(Text201)), MaxTime) }

\* The logs of a suite of n test cases: per test case, in order, at most
\* one record per endpoint, in the order of the endpoints.
RECURSIVE BlockLogs(_, _)
BlockLogs(t, e) ==
    IF e = 0 THEN { <<>> }
    ELSE LET before == BlockLogs(t, e - 1)
         IN  before \cup { Append(l, r) : l \in before, r \in ReportRecords(t, e) }

RECURSIVE SuiteLogs(_)
SuiteLogs(n) ==
    IF n = 0 THEN { <<>> }
    ELSE { l \o b : l \in SuiteLogs(n - 1), b \in BlockLogs(n, Len(ConfiguredEndpoints)) }

\* main() at the return of run_all_benchmarks (line 354); console and
\* requests hold what is printed and sent from here on.
InitReport ==
    /\ endpoints = ConfiguredEndpoints
    /\ calls = <<>>
    /\ finished = <<>>
    /\ now = MaxTime
    /\ pc = "suite_done"
    /\ test_index = NumTests
    /\ results \in SuiteLogs(NumTests)
    /\ valid_results = <<>>
    /\ console = <<>>
    /\ requests = <<>>
    /\ file = <<>>

NextReport ==
    \/ save_results
    \/ print_summary

SpecReport == InitReport /\ [][NextReport]_vars

---------------------------------------------------------------------------
(* Properties.                                                             *)

\* The fixed message of lines 214-224.
NoChoicesMessage == "No response choices returned"

\* A falsy Python value, by type.
IsEmptyValue(x) ==
    \/ x.t = "NoneType"
    \/ x.t = "int"  /\ x.v = 0
    \/ x.t = "str"  /\ x.v = ""
    \/ x.t = "list" /\ Len(x.v) = 0
    \/ x.t = "dict" /\ DOMAIN x.v = {}

\* A decoded body that is an object with a non-empty "choices" list.
HasChoicesList(d) ==
    /\ d.t = "dict"
    /\ "choices" \in DOMAIN d.v
    /\ d.v["choices"].t = "list"
    /\ Len(d.v["choices"].v) > 0

\* The first choice is an object whose "message" is an object with a "content".
HasContent(d) ==
    /\ HasChoicesList(d)
    /\ LET first == d.v["choices"].v[1] IN
       /\ first.t = "dict"
       /\ "message" \in DOMAIN first.v
       /\ first.v["message"].t = "dict"
       /\ "content" \in DOMAIN first.v["message"].v

ContentOf(d) == d.v["choices"].v[1].v["message"].v["content"]

\* C1: (SpecCall) once call_model has entered the HTTP exchange it never
\* ends with an exception: it ends by returning exactly one BenchmarkResult,
\* and every exception raised during the exchange (by the transport, by
\* reading or decoding the body, by a malformed body) is captured into that
\* record as a failure carrying the exception's text.
C1_call_model_never_raises ==
    \A i \in DOMAIN calls :
        LET c == calls[i] IN
        /\ c.request # <<>> => c.pc # "raised" /\ c.exception = <<>>
        /\ Len(c.result) = (IF c.pc = "returned" THEN 1 ELSE 0)
        /\ c.caught # <<>> =>
              /\ c.pc = "returned"
              /\ ~c.result[1].success
              /\ c.result[1].error_message = Some(c.caught[1].msg)

\* A call whose well-formed HTTP 200 body lacks "message" in its first
\* choice has returned a failed record for the KeyError.
C1_Witness ==
    \E i \in DOMAIN calls :
        /\ calls[i].pc = "returned"
        /\ calls[i].status = 200
        /\ calls[i].caught = <<Exc("KeyError", "'message'")>>
        /\ ~calls[i].result[1].success

\* C2: (SpecFanOut) every record of self.results has success = false
\* exactly if its error_message is present, its response is "" and its
\* tokens_generated is 0; so a successful record has no error_message and a
\* failed one has one.
C2_success_iff_no_error ==
    \A k \in DOMAIN results :
        LET r == results[k] IN
        (r.success = FALSE) <=>
            (r.error_message # None /\ r.response = PyStr("") /\ r.tokens_generated = 0)

\* The log holds a failed record whose message is the empty text of a
\* timeout and a successful record with an empty response and no tokens.
C2_Witness ==
    \E j, k \in DOMAIN results :
        /\ ~results[j].success /\ results[j].error_message = Some("")
        /\ results[k].success /\ results[k].response = PyStr("")
        /\ results[k].tokens_generated = 0

\* C3: (Spec) when run_benchmark returns, it returns at most one record per
\* configured endpoint and has appended to self.results exactly the records
\* it returns; if every call returned a record, it returns one record per
\* endpoint, in the endpoints' order, all of the test case run.
C3_run_benchmark_returns ==
    [][ (pc = "gathering" /\ pc' = "joined") =>
          /\ Len(valid_results') <= Len(ConfiguredEndpoints)
          /\ results' = results \o valid_results'
          /\ (\A i \in DOMAIN calls : calls[i].pc = "returned") =>
                /\ Len(valid_results') = Len(ConfiguredEndpoints)
                /\ Len(results') = Len(results) + Len(ConfiguredEndpoints)
                /\ \A e \in DOMAIN ConfiguredEndpoints :
                      /\ valid_results'[e].model_name = ConfiguredEndpoints[e].name
                      /\ valid_results'[e].test_name = BENCHMARK_TESTS[test_index].name
      ]_vars

\* The second run_benchmark has returned two records (one call raised)
\* after the first one returned three.
C3_Witness ==
    /\ pc = "joined"
    /\ test_index = 2
    /\ Len(valid_results) = 2
    /\ Len(results) = 5

\* C4: (Spec) while a call is not finished, run_benchmark has not
\* returned, no record and no status line of its test case exists, and
\* every unfinished call belongs to the test case being run: calls of the
\* next test case are created only after all calls of this one are done.
C4_join_barrier ==
    \A i \in DOMAIN calls :
        IsPending(calls[i]) =>
            /\ pc = "gathering"
            /\ calls[i].config = test_index
            /\ \A k \in DOMAIN results :
                  results[k].test_name # BENCHMARK_TESTS[calls[i].config].name
            /\ \A l \in DOMAIN console :
                  console[l].kind = "status" =>
                      console[l].record[1].test_name # BENCHMARK_TESTS[calls[i].config].name
            /\ \A j \in DOMAIN calls :
                  IsPending(calls[j]) => calls[j].config = calls[i].config

\* In the second test case one call has returned while the two others are
\* still awaiting the network; the log holds the first test case only.
C4_Witness ==
    /\ pc = "gathering"
    /\ test_index = 2
    /\ Len(results) = 3
    /\ \E i, j, k \in DOMAIN calls :
          /\ calls[i].pc = "returned" /\ calls[i].result[1].success
          /\ calls[j].pc = "posting"
          /\ calls[k].pc = "reading"

\* C5: (SpecFanOut) when run_benchmark returns, every call has run to its
\* end; a call that raised has its exception printed and no record in the
\* returned list or the log; every call that returned has its record,
\* unchanged, in the returned list and in the log.
C5_sibling_isolation ==
    pc = "joined" =>
        \A i \in DOMAIN calls :
            LET c    == calls[i]
                name == endpoints[c.endpoint].name
            IN  /\ IsDone(c)
                /\ c.pc = "raised" =>
                      /\ \E l \in DOMAIN console :
                            console[l] = Line("Error in benchmark: " \o c.exception[1].msg)
                      /\ \A k \in DOMAIN valid_results : valid_results[k].model_name # name
                      /\ \A k \in DOMAIN results : results[k].model_name # name
                /\ c.pc = "returned" =>
                      /\ \E k \in DOMAIN valid_results : valid_results[k] = c.result[1]
                      /\ \E k \in DOMAIN results : results[k] = c.result[1]

\* run_benchmark has returned although the second call raised first; the
\* first call then completed and the third got an HTTP 500.
C5_Witness ==
    /\ pc = "joined"
    /\ Len(calls) = 3
    /\ calls[2].pc = "raised"
    /\ finished[1] = 2
    /\ calls[1].pc = "returned" /\ calls[1].result[1].success
    /\ calls[3].pc = "returned" /\ calls[3].status = 500
    /\ Len(valid_results) = 2

\* The position in self.results of the record of test case `test` and
\* endpoint `model`.
PositionOf(test, model) ==
    CHOOSE k \in DOMAIN results :
        results[k].test_name = test /\ results[k].model_name = model

\* The place of an endpoint in the task list of run_benchmark.
EndpointIndex(name) ==
    CHOOSE e \in DOMAIN ConfiguredEndpoints : ConfiguredEndpoints[e].name = name

\* C6 as stated: (Spec) of two calls of one test case that returned
\* records, the record of the one that finished first stands earlier in
\* self.results.
C6_completion_order ==
    pc = "joined" =>
        \A a, b \in DOMAIN finished :
            (a < b /\ calls[finished[a]].pc = "returned"
                   /\ calls[finished[b]].pc = "returned") =>
                PositionOf(calls[finished[a]].result[1].test_name,
                           calls[finished[a]].result[1].model_name)
                  < PositionOf(calls[finished[b]].result[1].test_name,
                               calls[finished[b]].result[1].model_name)

\* C6 amended: (Spec) within one test case the records stand in
\* self.results in the order of run_benchmark's task list (Cerebras,
\* Alibaba Cloud, Custom Server), whatever order the calls finished in.
C6_task_order ==
    \A j, k \in DOMAIN results :
        (j < k /\ results[j].test_name = results[k].test_name) =>
            EndpointIndex(results[j].model_name) < EndpointIndex(results[k].model_name)

\* run_benchmark has returned three records whose calls finished in the
\* order third, second, first.
C6_Witness ==
    /\ pc = "joined"
    /\ finished = <<3, 2, 1>>
    /\ Len(valid_results) = 3
    /\ Len(results) = 3

\* C7 as stated: (SpecCall) every call answered with a status other than
\* 200 returns a failed record whose error_message is "HTTP {status}: "
\* followed by a body text, also when reading the body failed.
C7_http_error_always ==
    \A i \in DOMAIN calls :
        LET c == calls[i] IN
        (c.pc = "returned" /\ c.status \notin {0, 200}) =>
            /\ ~c.result[1].success
            /\ \E text \in CallEnv.texts :
                  c.result[1].error_message =
                      Some("HTTP " \o ToString(c.status) \o ": " \o text)

\* C7 amended: (SpecCall) a call answered with a status other than 200
\* returns a failed record with no tokens and an empty response; its
\* error_message is "HTTP {status}: {body text}" when the body was read,
\* and the text of the exception when reading the body raised.
C7_http_error ==
    \A i \in DOMAIN calls :
        LET c == calls[i] IN
        (c.pc = "returned" /\ c.status \notin {0, 200}) =>
            LET r == c.result[1] IN
            /\ ~r.success
            /\ r.tokens_generated = 0
            /\ r.response = PyStr("")
            /\ c.error_text # <<>> =>
                  r.error_message =
                      Some("HTTP " \o ToString(c.status) \o ": " \o c.error_text[1])
            /\ c.error_text = <<>> =>
                  /\ c.caught # <<>>
                  /\ r.error_message = Some(c.caught[1].msg)

\* The answer 500 "server error" has been turned into its record.
C7_Witness ==
    \E i \in DOMAIN calls :
        /\ calls[i].pc = "returned"
        /\ calls[i].status = 500
        /\ calls[i].error_text = <<"server error">>
        /\ calls[i].result[1].error_message = Some("HTTP 500: server error")
        /\ calls[i].result[1].tokens_generated = 0

\* C8 as stated: (SpecCall) every failure on a status-200 answer that is
\* no transport failure (malformed JSON, unexpected shape, no choices)
\* carries the fixed message.
C8_schema_error_fixed_message ==
    \A i \in DOMAIN calls :
        LET c == calls[i] IN
        (/\ c.pc = "returned" /\ c.status = 200 /\ ~c.result[1].success
         /\ \/ c.data # <<>>
            \/ c.caught # <<>> /\ c.caught[1].type = "JSONDecodeError") =>
            c.result[1].error_message = Some(NoChoicesMessage)

\* C8 amended: (SpecCall) on a status-200 answer, a body that decodes to an
\* object without "choices" or with an empty "choices" gives a failed record
\* with the fixed message; a body that is malformed JSON, or whose shape
\* makes call_model raise, gives a failed record with the text of the
\* exception.  Every failed record has an empty response and no tokens.
C8_schema_error ==
    \A i \in DOMAIN calls :
        LET c == calls[i] IN
        (c.pc = "returned" /\ c.status = 200) =>
            LET r == c.result[1] IN
            /\ (/\ c.data # <<>>
                /\ c.data[1].t = "dict"
                /\ \/ "choices" \notin DOMAIN c.data[1].v
                   \/ IsEmptyValue(c.data[1].v["choices"])) =>
                  /\ ~r.success
                  /\ c.caught = <<>>
                  /\ r.error_message = Some(NoChoicesMessage)
            /\ c.caught # <<>> =>
                  /\ ~r.success
                  /\ r.error_message = Some(c.caught[1].msg)
                  /\ r.error_message # Some(NoChoicesMessage)
            /\ ~r.success => r.response = PyStr("") /\ r.tokens_generated = 0

\* A body {"choices": []} has been turned into the record with the fixed message.
C8_Witness ==
    \E i \in DOMAIN calls :
        /\ calls[i].pc = "returned"
        /\ calls[i].data = << Dict1("choices", PyList(<<>>)) >>
        /\ calls[i].result[1].error_message = Some(NoChoicesMessage)

\* C9 as stated: (SpecCall) a status-200 answer whose body decoded to an
\* object with a non-empty "choices" list gives a successful record,
\* whatever the first choice is.
C9_choices_always_success ==
    \A i \in DOMAIN calls :
        LET c == calls[i] IN
        (c.pc = "returned" /\ c.data # <<>> /\ HasChoicesList(c.data[1])) =>
            c.result[1].success

\* C9 amended: (SpecCall) a status-200 answer whose body decoded to an
\* object with a non-empty "choices" list gives a successful record with
\* response = the content of the first choice's message and
\* tokens_generated = floor(len(response) / 4), if the first choice is an
\* object whose "message" is an object whose "content" is a string or a
\* list; any other first choice gives a failed record with the text of the
\* exception raised.
C9_first_choice ==
    \A i \in DOMAIN calls :
        LET c == calls[i] IN
        (c.pc = "returned" /\ c.data # <<>> /\ HasChoicesList(c.data[1])) =>
            LET r == c.result[1]
                d == c.data[1]
            IN  IF HasContent(d) /\ ContentOf(d).t \in {"str", "list"}
                THEN /\ r.success
                     /\ r.response = ContentOf(d)
                     /\ r.tokens_generated = Len(r.response.v) \div 4
                     /\ r.error_message = None
                ELSE /\ ~r.success
                     /\ c.caught # <<>>
                     /\ r.error_message = Some(c.caught[1].msg)

\* The completion "abcdefghi" (9 characters) has given 2 tokens.
C9_Witness ==
    \E i \in DOMAIN calls :
        /\ calls[i].pc = "returned"
        /\ calls[i].data = << ChatCompletion(PyStr("abcdefghi")) >>
        /\ calls[i].result[1].success
        /\ calls[i].result[1].response = PyStr("abcdefghi")
        /\ calls[i].result[1].tokens_generated = 2

\* C10: (SpecCall) when call_model builds its request, the request carries
\* Authorization = "Bearer <api_key>" if the endpoint's api_key is not
\* "none" (whatever Authorization the endpoint's static headers held),
\* carries no Authorization header at all if the api_key is "none"
\* (whatever the static headers contain), and the endpoint's own headers
\* mapping is left as it was.
C10_authorization ==
    [][ \A i \in DOMAIN calls :
          (calls[i].request = <<>> /\ calls'[i].request # <<>>) =>
              LET ep   == endpoints[calls[i].endpoint]
                  sent == calls'[i].request[1].headers
              IN  /\ endpoints' = endpoints
                  /\ ep.api_key # "none" =>
                        /\ "Authorization" \in DOMAIN sent
                        /\ sent["Authorization"] = "Bearer " \o ep.api_key
                  /\ ep.api_key = "none" => "Authorization" \notin DOMAIN sent
                  /\ \A h \in DOMAIN ep.headers \ {"Authorization"} :
                        h \in DOMAIN sent /\ sent[h] = ep.headers[h]
      ]_vars

\* The fraction f has the value n / d (d # 0).
IsQuotient(f, n, d) == f.den # 0 /\ f.num * d = n * f.den

\* C11: (SpecFanOut) every record of self.results has tokens_per_second =
\* tokens_generated / response_time if its response_time is positive and
\* tokens_per_second = 0 otherwise; no quotient has a zero divisor, and
\* every failed record has tokens_per_second = 0.
C11_tokens_per_second ==
    \A k \in DOMAIN results :
        LET r == results[k] IN
        /\ r.tokens_per_second.den # 0
        /\ IF r.response_time > 0
           THEN IsQuotient(r.tokens_per_second, r.tokens_generated, r.response_time)
           ELSE r.tokens_per_second.num = 0
        /\ ~r.success => r.tokens_per_second.num = 0

\* The log holds a completion of 2 tokens received at once (response_time
\* 0, throughput 0) and one of 2 tokens received after one time unit
\* (throughput 2), next to a failed record with a positive response_time.
C11_Witness ==
    \E i, j, k \in DOMAIN results :
        /\ results[i].success /\ results[i].tokens_generated = 2
        /\ results[i].response_time = 0 /\ results[i].tokens_per_second.num = 0
        /\ results[j].success /\ results[j].response_time = 1
        /\ IsQuotient(results[j].tokens_per_second, 2, 1)
        /\ ~results[k].success /\ results[k].response_time = 1

\* The positions in the log of the records of a model, and of its
\* successful ones.
IndicesOf(m)           == {k \in DOMAIN results : results[k].model_name = m}
SuccessfulIndicesOf(m) == {k \in IndicesOf(m) : results[k].success}
FailedIndicesOf(m)     == {k \in IndicesOf(m) : ~results[k].success}

\* The positions in the console of the summary lines of a kind for a model.
SummaryLinesOf(kind, m) ==
    {l \in DOMAIN console : console[l].kind = kind /\ console[l].text = m}

\* The sums of response_time and of tokens_per_second over a set of positions.
RECURSIVE TimeOver(_)
TimeOver(K) ==
    IF K = {} THEN 0
    ELSE LET k == CHOOSE x \in K : TRUE
         IN  results[k].response_time + TimeOver(K \ {k})

RECURSIVE ThroughputOver(_)
ThroughputOver(K) ==
    IF K = {} THEN [num |-> 0, den |-> 1]
    ELSE LET k    == CHOOSE x \in K : TRUE
             rest == ThroughputOver(K \ {k})
             f    == results[k].tokens_per_second
         IN  [num |-> f.num * rest.den + rest.num * f.den, den |-> f.den * rest.den]

\* C12: (SpecReport) after print_summary, for every model of the log: one
\* line reports the number of its successful records over the number of
\* its records; if it has a successful record, the averages printed are the
\* sums of response_time and of tokens_per_second over its successful
\* records divided by their number, and if it has none no average is
\* printed (and nothing is divided by zero); every failed record is listed
\* with its test_name and error_message.
C12_summary ==
    pc = "done" =>
        \A m \in {results[k].model_name : k \in DOMAIN results} :
            LET S == SuccessfulIndicesOf(m)
                F == FailedIndicesOf(m)
                n == Cardinality(S)
            IN  /\ \E l \in DOMAIN console :
                      /\ SummaryLinesOf("successful", m) = {l}
                      /\ console[l].record[1] =
                            [successful |-> n, total |-> Cardinality(IndicesOf(m))]
                /\ Cardinality(SummaryLinesOf("average_time", m)) = (IF n > 0 THEN 1 ELSE 0)
                /\ Cardinality(SummaryLinesOf("average_tps", m)) = (IF n > 0 THEN 1 ELSE 0)
                /\ \A l \in SummaryLinesOf("average_time", m) :
                      IsQuotient(console[l].record[1], TimeOver(S), n)
                /\ \A l \in SummaryLinesOf("average_tps", m) :
                      LET sum == ThroughputOver(S) IN
                      IsQuotient(console[l].record[1], sum.num, sum.den * n)
                /\ Cardinality(SummaryLinesOf("failed", m)) = Cardinality(F)
                /\ \A k \in F : \E l \in SummaryLinesOf("failed", m) :
                      console[l].record[1] =
                          [test_name     |-> results[k].test_name,
                           error_message |-> results[k].error_message]

\* The summary of a log in which Cerebras has two successful records of
\* different response times, Alibaba Cloud one successful and one failed
\* record, and Custom Server only failed records.
C12_Witness ==
    /\ pc = "done"
    /\ Cardinality(SuccessfulIndicesOf("Cerebras")) = 2
    /\ \E j, k \in SuccessfulIndicesOf("Cerebras") :
          results[j].response_time # results[k].response_time
    /\ Cardinality(SuccessfulIndicesOf("Alibaba Cloud")) = 1
    /\ Cardinality(FailedIndicesOf("Alibaba Cloud")) = 1
    /\ SuccessfulIndicesOf("Custom Server") = {}
    /\ Cardinality(FailedIndicesOf("Custom Server")) = 2
    /\ SummaryLinesOf("average_time", "Custom Server") = {}
    /\ \E l \in SummaryLinesOf("successful", "Custom Server") :
          console[l].record[1] = [successful |-> 0, total |-> 2]

\* C13: (SpecReport) the file save_results writes has exactly one entry
\* per record of the log, in the order of the log; the response_preview of
\* an entry is the response itself if the response has at most 200
\* characters (also exactly 200), and its first 200 characters followed by
\* "..." if it has more, so that no preview has more than 203 characters;
\* the other fields of the entry are those of the record.
C13_response_preview ==
    file # <<>> =>
        /\ Len(file[1]) = Len(results)
        /\ \A k \in DOMAIN results :
              LET r == results[k]
                  e == file[1][k]
              IN  /\ e.test_name = r.test_name
                  /\ e.model_name = r.model_name
                  /\ e.response_time = r.response_time
                  /\ e.tokens_generated = r.tokens_generated
                  /\ e.tokens_per_second = r.tokens_per_second
                  /\ e.success = r.success
                  /\ e.error_message = r.error_message
                  /\ e.timestamp = r.timestamp
                  /\ e.response_preview.t = "str"
                  /\ Len(e.response_preview.v) <= 203
                  /\ IF Len(r.response.v) <= 200
                     THEN e.response_preview = r.response
                     ELSE /\ Len(e.response_preview.v) = 203
                          /\ SubSeq(e.response_preview.v, 1, 200) = SubSeq(r.response.v, 1, 200)
                          /\ SubSeq(e.response_preview.v, 201, 203) = "..."

\* The file holds the entries of an empty response, of a response of
\* exactly 200 characters, kept whole, and of one of 201 characters, cut.
C13_Witness ==
    /\ file # <<>>
    /\ \E i, j, k \in DOMAIN results :
          /\ results[i].response = PyStr("") /\ file[1][i].response_preview = PyStr("")
          /\ Len(results[j].response.v) = 200
          /\ file[1][j].response_preview = results[j].response
          /\ Len(results[k].response.v) = 201
          /\ Len(file[1][k].response_preview.v) = 203

\* The number of times run_benchmark was entered for test case t.
TimesRun(t) ==
    Cardinality({l \in DOMAIN console :
                    console[l] = Line("Running test: " \o BENCHMARK_TESTS[t].name)})

\* C14: (SpecLive) if every exchange ends, run_all_benchmarks returns, and
\* when it does run_benchmark has been entered exactly once for every test
\* case of the suite, whatever records failed, were missing or whatever
\* exceptions the calls raised.
C14_suite_terminates ==
    <>(pc = "suite_done" /\ \A t \in DOMAIN SuiteTests : TimesRun(t) = 1)

\* run_all_benchmarks has returned from a suite in which a call of the
\* first test case raised and a call of the second one failed.
C14_Witness ==
    /\ pc = "suite_done"
    /\ \A t \in DOMAIN SuiteTests : TimesRun(t) = 1
    /\ Len(results) < NumTests * Len(ConfiguredEndpoints)
    /\ \E k \in DOMAIN results :
          results[k].test_name = BENCHMARK_TESTS[1].name /\ results[k].success
    /\ \E k \in DOMAIN results :
          results[k].test_name = BENCHMARK_TESTS[NumTests].name /\ ~results[k].success
    /\ \E l \in DOMAIN console : console[l] = Line("Error in benchmark: ")

\* C15: (Spec) every step leaves the log as it was or extends it: the old
\* log is a prefix of the new one.  The log is extended only by the step
\* in which run_benchmark goes on after its gather, when every call is
\* done, and only by records that calls have returned; the steps of
\* call_model, save_results and print_summary leave the log unchanged.
C15_append_only ==
    [][ /\ Len(results) <= Len(results')
        /\ SubSeq(results', 1, Len(results)) = results
        /\ results' # results =>
              /\ pc = "gathering" /\ pc' = "joined"
              /\ \A i \in DOMAIN calls : IsDone(calls[i])
              /\ \A k \in (Len(results) + 1) .. Len(results') :
                    \E i \in DOMAIN calls :
                        calls[i].pc = "returned" /\ calls[i].result = <<results'[k]>>
        /\ calls' # calls => results' = results
        /\ pc \in {"suite_done", "saved"} => results' = results
      ]_vars

\* main() has ended: the log of the second run_benchmark, which extended
\* that of the first by two records, has been saved and summarised.
C15_Witness ==
    /\ pc = "done"
    /\ file # <<>>
    /\ Len(results) = 5
    /\ Len(valid_results) = 2
    /\ Len(file[1]) = Len(results)

\* The (endpoint, test case) pairs of the suite, by their names, and the
\* positions of the requests and of the records of a pair.
SuitePairs ==
    { [model_name |-> ConfiguredEndpoints[e].name, test_name |-> SuiteTests[t].name] :
        e \in DOMAIN ConfiguredEndpoints, t \in DOMAIN SuiteTests }

RequestsOf(pair) == {q \in DOMAIN requests : requests[q] = pair}

RecordsOf(pair) ==
    {k \in DOMAIN results : /\ results[k].model_name = pair.model_name
                            /\ results[k].test_name = pair.test_name}

\* The exceptions of calls that run_benchmark has printed.
PrintedExceptions ==
    {l \in DOMAIN console : console[l] = Line("Error in benchmark: ")}

C17_elapsed_at_exit ==
    \A i \in DOMAIN calls :
        calls[i].pc = "returned" =>
            calls[i].result[1].response_time
                = calls[i].result[1].timestamp - calls[i].start_time

\* C17 amended: (SpecCall) response_time is taken when the response head
\* arrives, as the time elapsed since the start of the call.  A record
\* built without an exception (success, HTTP error, no choices) carries
\* that value, which does not grow while the body is received and decoded;
\* a record built by the except clause carries the time elapsed from the
\* start of the call to the moment the exception is handled.
C17_response_time ==
    [][ \A i \in DOMAIN calls :
          LET c == calls[i]
              d == calls'[i]
          IN  /\ (c.pc = "posting" /\ d.pc = "reading") =>
                    d.response_time = now - c.start_time
              /\ (c.pc # "returned" /\ d.pc = "returned") =>
                    IF d.caught # <<>>
                    THEN d.result[1].response_time = now - c.start_time
                    ELSE /\ c.pc = "reading"
                         /\ d.result[1].response_time = c.response_time
                         /\ d.result[1].response_time <= now - c.start_time
      ]_vars

\* A completion whose head arrived at once and whose body took one time
\* unit: the call lasted 1, the record says 0.
C17_Witness ==
    \E i \in DOMAIN calls :
        /\ calls[i].pc = "returned"
        /\ calls[i].result[1].success
        /\ calls[i].result[1].timestamp - calls[i].start_time = 1
        /\ calls[i].result[1].response_time = 0

\* The index in BENCHMARK_TESTS of the test case of a name.
TestIndexOf(name) ==
    CHOOSE t \in DOMAIN BENCHMARK_TESTS : BENCHMARK_TESTS[t].name = name

\* The positions of the status lines in a console.
StatusPositions(lines) == {l \in DOMAIN lines : lines[l].kind = "status"}

\* C18: (Spec) the sleep of a test case begins only after its run_benchmark
\* has returned with every call done, in the step that prints one status
\* line per returned record, in their order; the next test case is entered
\* only when the sleep is over; a request is issued only inside the
\* run_benchmark of its own test case, when all status lines printed are
\* those of earlier test cases, and never during a sleep; the status lines
\* stand in the console in the order of the test cases.
C18_suite_order ==
    [][ /\ (pc' = "sleeping" /\ pc # "sleeping") =>
              /\ pc = "joined"
              /\ \A i \in DOMAIN calls : IsDone(calls[i])
              /\ Len(console') = Len(console) + Len(valid_results) + 1
              /\ \A k \in DOMAIN valid_results :
                    /\ console'[Len(console) + k].kind = "status"
                    /\ console'[Len(console) + k].record = <<valid_results[k]>>
              /\ StatusPositions(console') \ StatusPositions(console)
                    = {Len(console) + k : k \in DOMAIN valid_results}
        /\ (test_index' # test_index /\ pc # "main") =>
              /\ pc = "sleeping"
              /\ test_index' = test_index + 1
        /\ requests' # requests =>
              /\ pc = "gathering"
              /\ requests' = Append(requests, requests'[Len(requests')])
              /\ requests'[Len(requests')].test_name = BENCHMARK_TESTS[test_index].name
              /\ \A l \in StatusPositions(console) :
                    TestIndexOf(console[l].record[1].test_name) < test_index
        /\ pc = "sleeping" => requests' = requests /\ Pending(calls) = <<>>
        /\ \A a, b \in StatusPositions(console') :
              a < b => TestIndexOf(console'[a].record[1].test_name)
                         <= TestIndexOf(console'[b].record[1].test_name)
      ]_vars

\* The sleep of the second test case: its three status lines follow the two
\* of the first one, whose third call raised.
C18_Witness ==
    /\ pc = "sleeping"
    /\ test_index = 2
    /\ Cardinality(StatusPositions(console)) = 5
    /\ Len(valid_results) = 3
    /\ console[Len(console)] = Separator
    /\ console[Len(console) - 1].kind = "status"

\* The position in the log of the first record of a model.
FirstIndexOf(m) == CHOOSE k \in IndicesOf(m) : \A j \in IndicesOf(m) : k <= j

\* The positions in the console of the lines that open the groups of
\* print_summary, and the sum of the group sizes they report.
GroupPositions == {l \in DOMAIN console : console[l].kind = "model"}

RECURSIVE GroupSizes(_)
GroupSizes(L) ==
    IF L = {} THEN 0
    ELSE LET l == CHOOSE x \in L : TRUE
         IN  console[l].record[1] + GroupSizes(L \ {l})

\* What a line of a kind reports for a model, 0 if there is no such line.
Reported(kind, m) ==
    IF SummaryLinesOf(kind, m) = {} THEN 0
    ELSE console[CHOOSE l \in SummaryLinesOf(kind, m) : TRUE].record[1]

\* C19: (SpecReport) the groups print_summary reports partition the log:
\* there is one group per model_name of the log and none else, a group has
\* as many records as the log has of its model, the group sizes add up to
\* the length of the log, and in a group the successful and the failed
\* records add up to its size; the groups are reported in the order in
\* which their models first appear in the log.
C19_groups ==
    pc = "done" =>
        /\ {console[l].text : l \in GroupPositions}
              = {results[k].model_name : k \in DOMAIN results}
        /\ \A a, b \in GroupPositions :
              /\ console[a].text = console[b].text => a = b
              /\ a < b => FirstIndexOf(console[a].text) < FirstIndexOf(console[b].text)
        /\ \A l \in GroupPositions :
              LET m == console[l].text IN
              /\ console[l].record[1] = Cardinality(IndicesOf(m))
              /\ Reported("successful", m).total = console[l].record[1]
              /\ Reported("successful", m).successful + Reported("failed_count", m)
                    = console[l].record[1]
        /\ GroupSizes(GroupPositions) = Len(results)

\* The summary of a log that begins with a record of Alibaba Cloud, the
\* call of Cerebras having raised in the first test case: Alibaba Cloud is
\* reported before Cerebras.
C19_Witness ==
    /\ pc = "done"
    /\ results # <<>>
    /\ results[1].model_name = "Alibaba Cloud"
    /\ \E a, b \in GroupPositions :
          a < b /\ console[a].text = "Alibaba Cloud" /\ console[b].text = "Cerebras"
    /\ Cardinality(GroupPositions) = 3

\* C20: (Spec) in every state the log is ordered by test case, in the
\* order of BENCHMARK_TESTS, and inside a test case by endpoint, in the
\* order in which run_benchmark creates the calls: the records of a test
\* case are contiguous, and the sequence of (test_name, model_name,
\* success) is fixed by the outcomes of the calls, not by the order in
\* which the calls finished.
C20_log_order ==
    \A j, k \in DOMAIN results :
        j < k =>
            LET tj == TestIndexOf(results[j].test_name)
                tk == TestIndexOf(results[k].test_name)
            IN  \/ tj < tk
                \/ /\ tj = tk
                   /\ EndpointIndex(results[j].model_name)
                        < EndpointIndex(results[k].model_name)

\* The second run_benchmark has returned its three records after those of
\* the first; its calls had finished in the order third, first, second.
C20_Witness ==
    /\ pc = "joined"
    /\ test_index = 2
    /\ finished = <<3, 1, 2>>
    /\ Len(results) = 6
    /\ results[1].model_name = "Cerebras"
    /\ results[4].test_name = BENCHMARK_TESTS[2].name
    /\ results[6].model_name = "Custom Server"

===========
